---- MODULE Spec2Model ----
(***************************************************************************)
(* Model of the "Using Events" guide's program (src/unnamed/part_000):     *)
(* transactionIsRelatedToPair, approveTokenToRouter and the final main     *)
(* with its 'transaction' handler.                                         *)
(*                                                                         *)
(* JavaScript values: strings are TLA+ strings, null is the marker Null,   *)
(* an undefined property is a field the record does not have, and a local  *)
(* that has not been assigned yet is the empty tuple (<<v>> once it holds  *)
(* v).                                                                     *)
(***************************************************************************)
EXTENDS Integers, Sequences, FiniteSets, TLC

\* ---------------------------------------------------------------- bounds
MaxLogs   == 2   \* longest logs array of a pending transaction
MaxEvents == 2   \* 'transaction' events the stream delivers in one run
MaxNonce  == 1   \* largest nonce the node answers
MaxAmount == 2   \* largest token amount; stands for 2^256 - 1

\* ---------------------------------------------------------------- values
Null == "null"

\* Addresses as they appear in events: a checksummed (mixed case) one, its
\* lower-case form, and another lower-case one.
Address == {"0xA478", "0xa478", "0xb175"}

\* What the factory's getPair can answer (checksummed addresses).
FactoryPairs == {"0xA478", "0xB175"}

\* String.prototype.toLowerCase on the strings of the model.
toLowerCase(s) ==
    CASE s = "0xA478" -> "0xa478"
      [] s = "0xB175" -> "0xb175"
      [] OTHER        -> s

Hash == {"0x26ab", "0xeb0d"}

\* topics and data of a log
LogPayload == {[topics |-> <<"0xddf2">>, data |-> "0x"],
               [topics |-> <<"0x1c41", "0x0d4a">>, data |-> "0x0253"]}

Log == {[address |-> a, topics |-> p.topics, data |-> p.data] :
            a \in Address, p \in LogPayload}

LogArrays == UNION {[1..n -> Log] : n \in 0..MaxLogs}

\* functionSelector, callData, gasUsed, mevGasPrice: unshared or shared
Shared == {[functionSelector |-> Null, callData |-> Null,
            gasUsed |-> Null, mevGasPrice |-> Null],
           [functionSelector |-> "0x38ed", callData |-> "0x38ed1739",
            gasUsed |-> "0x5208", mevGasPrice |-> "0x01"]}

\* IPendingTransaction: `logs` is optional, `to` may be null.
PendingTransaction ==
    {[hash |-> h, to |-> t, functionSelector |-> s.functionSelector,
      callData |-> s.callData, gasUsed |-> s.gasUsed,
      mevGasPrice |-> s.mevGasPrice] :
        h \in Hash, t \in Address \cup {Null}, s \in Shared}
    \cup
    {[hash |-> h, to |-> t, functionSelector |-> s.functionSelector,
      callData |-> s.callData, gasUsed |-> s.gasUsed,
      mevGasPrice |-> s.mevGasPrice, logs |-> l] :
        h \in Hash, t \in Address \cup {Null}, s \in Shared, l \in LogArrays}

Amount == 0..MaxAmount
MaxUint256 == MaxAmount

\* ------------------------------------------------ transactionIsRelatedToPair
\* (pendingTx.logs || [])
logsOrEmpty(pendingTx) ==
    IF "logs" \in DOMAIN pendingTx THEN pendingTx.logs ELSE <<>>

\* Array.prototype.some(log => log.address === pair): scans from the first
\* element and stops at the first hit.
RECURSIVE some(_, _)
some(logs, pair) ==
    IF logs = <<>> THEN FALSE
    ELSE IF Head(logs).address = pair THEN TRUE
    ELSE some(Tail(logs), pair)

\* Variant: looks at the first log only.
transactionIsRelatedToPair_firstLog(pendingTx, pair) ==
    IF pendingTx.to = pair THEN TRUE
    ELSE IF logsOrEmpty(pendingTx) = <<>> THEN FALSE
    ELSE Head(logsOrEmpty(pendingTx)).address = pair

\* Variant: a log counts only when it carries data.
transactionIsRelatedToPair_dataLogs(pendingTx, pair) ==
    IF pendingTx.to = pair THEN TRUE
    ELSE some(SelectSeq(logsOrEmpty(pendingTx), LAMBDA l : l.data /= "0x"), pair)

transactionIsRelatedToPair(pendingTx, pair) ==
    IF pendingTx.to = pair THEN TRUE
    ELSE some(logsOrEmpty(pendingTx), pair)

\* ---------------------------------------------------------------- state
VARIABLES
    pc,            \* main: index of the next statement in mainSteps
    apc,           \* approveTokenToRouter: "idle" before the call, the pending
                   \* await while it runs, then "returned" or "exit"
    exited,        \* process.exit was called or main's promise rejected
    PAIR_ADDRESS,  \* main's const, <<>> until assigned
    nonce,         \* main's const, <<>> until assigned
    allowance,     \* approveTokenToRouter's const, <<>> when not in scope
    balance,       \* approveTokenToRouter's const, <<>> when not in scope
    approvals,     \* approve transactions sent by the executor wallet
    listeners,     \* event names mevshare has a handler for
    stream,        \* event delivered by the stream, not yet handled
    delivered,     \* number of events the stream has delivered
    console,       \* lines written by console.log / console.error
    fnTx, fnTwin, fnPair, fnResult, fnTwinResult
                   \* a call of transactionIsRelatedToPair on its own

vars == <<pc, apc, exited, PAIR_ADDRESS, nonce, allowance, balance, approvals,
          listeners, stream, delivered, console,
          fnTx, fnTwin, fnPair, fnResult, fnTwinResult>>

mainVars == <<pc, apc, exited, PAIR_ADDRESS, nonce, allowance, balance,
              approvals, listeners, stream, delivered, console>>
fnVars   == <<fnTx, fnTwin, fnPair, fnResult, fnTwinResult>>

\* Variant: the handler is registered before the approval.
mainSteps_onFirst == <<"log", "getPair", "on", "approveTokenToRouter", "getNonce">>

\* The statements of the final main, in program order.
mainSteps == <<"log", "getPair", "approveTokenToRouter", "getNonce", "on">>

at(step) == ~exited /\ pc \in DOMAIN mainSteps /\ mainSteps[pc] = step

MainInit ==
    /\ pc = 1
    /\ apc = "idle"
    /\ exited = FALSE
    /\ PAIR_ADDRESS = <<>>
    /\ nonce = <<>>
    /\ allowance = <<>>
    /\ balance = <<>>
    /\ approvals = <<>>
    /\ listeners = {}
    /\ stream = <<>>
    /\ delivered = 0
    /\ console = <<>>

Init ==
    /\ MainInit
    /\ fnTx = <<>> /\ fnTwin = <<>> /\ fnPair = <<>>
    /\ fnResult = <<>> /\ fnTwinResult = <<>>

\* ---------------------------------------------------------------- main
\* console.log('mev-share auth address: ...'); console.log('executor address: ...')
MainLog ==
    /\ at("log")
    /\ console' = console \o <<[text |-> "mev-share auth address: ", arg |-> "authSigner"],
                               [text |-> "executor address: ", arg |-> "executorWallet"]>>
    /\ pc' = pc + 1
    /\ UNCHANGED <<apc, exited, PAIR_ADDRESS, nonce, allowance, balance,
                   approvals, listeners, stream, delivered>>
    /\ UNCHANGED fnVars

\* const PAIR_ADDRESS = (await uniswapFactoryContract.getPair(...)).toLowerCase()
MainGetPair ==
    /\ at("getPair")
    /\ \E answer \in FactoryPairs : PAIR_ADDRESS' = <<toLowerCase(answer)>>
    /\ pc' = pc + 1
    /\ UNCHANGED <<apc, exited, nonce, allowance, balance, approvals,
                   listeners, stream, delivered, console>>
    /\ UNCHANGED fnVars

\* await approveTokenToRouter(SELL_TOKEN_ADDRESS, UNISWAP_V2_ADDRESS): the call
MainCallApprove ==
    /\ at("approveTokenToRouter")
    /\ apc = "idle"
    /\ apc' = "allowance"
    /\ UNCHANGED <<pc, exited, PAIR_ADDRESS, nonce, allowance, balance,
                   approvals, listeners, stream, delivered, console>>
    /\ UNCHANGED fnVars

\* const allowance = await tokenContract.allowance(...)
ApproveReadAllowance ==
    /\ ~exited /\ apc = "allowance"
    /\ \E a \in Amount : allowance' = <<a>>
    /\ apc' = "balanceOf"
    /\ UNCHANGED <<pc, exited, PAIR_ADDRESS, nonce, balance, approvals,
                   listeners, stream, delivered, console>>
    /\ UNCHANGED fnVars

\* const balance = await tokenContract.balanceOf(...), then the two ifs.
\* The function's locals go out of scope when it returns.
ApproveReadBalance ==
    /\ ~exited /\ apc = "balanceOf"
    /\ \E b \in Amount :
        IF b = 0
        THEN /\ console' = Append(console, [text |-> "No token balance for ",
                                            arg |-> "SELL_TOKEN_ADDRESS"])
             /\ exited' = TRUE
             /\ apc' = "exit"
             /\ balance' = <<b>>
             /\ UNCHANGED <<pc, allowance>>
        ELSE IF allowance[1] >= b
        THEN /\ console' = Append(console, [text |-> "Token already approved",
                                            arg |-> ""])
             /\ apc' = "returned"
             /\ pc' = pc + 1
             /\ allowance' = <<>>
             /\ balance' = <<>>
             /\ UNCHANGED exited
        ELSE /\ apc' = "approve"
             /\ balance' = <<b>>
             /\ UNCHANGED <<console, exited, pc, allowance>>
    /\ UNCHANGED <<PAIR_ADDRESS, nonce, approvals, listeners, stream, delivered>>
    /\ UNCHANGED fnVars

\* await tokenContract.approve(routerAddress, 2n**256n - 1n), then return
ApproveSend ==
    /\ ~exited /\ apc = "approve"
    /\ approvals' = Append(approvals, [spender |-> "UNISWAP_V2_ADDRESS",
                                       amount |-> MaxUint256])
    /\ apc' = "returned"
    /\ pc' = pc + 1
    /\ allowance' = <<>>
    /\ balance' = <<>>
    /\ UNCHANGED <<exited, PAIR_ADDRESS, nonce, listeners, stream, delivered,
                   console>>
    /\ UNCHANGED fnVars

\* const nonce = await executorWallet.getNonce('latest')
MainGetNonce ==
    /\ at("getNonce")
    /\ \E n \in 0..MaxNonce : nonce' = <<n>>
    /\ pc' = pc + 1
    /\ UNCHANGED <<apc, exited, PAIR_ADDRESS, allowance, balance, approvals,
                   listeners, stream, delivered, console>>
    /\ UNCHANGED fnVars

\* mevshare.on('transaction', async (pendingTx) => {...})
MainOn ==
    /\ at("on")
    /\ listeners' = listeners \cup {"transaction"}
    /\ pc' = pc + 1
    /\ UNCHANGED <<apc, exited, PAIR_ADDRESS, nonce, allowance, balance,
                   approvals, stream, delivered, console>>
    /\ UNCHANGED fnVars

\* An awaited call (getPair, allowance, balanceOf, approve, getNonce) rejects:
\* main's promise rejects and nothing after the await runs.
AwaitRejects ==
    /\ ~exited
    /\ \/ at("getPair")
       \/ at("getNonce")
       \/ apc \in {"allowance", "balanceOf", "approve"}
    /\ exited' = TRUE
    /\ UNCHANGED <<pc, apc, PAIR_ADDRESS, nonce, allowance, balance, approvals,
                   listeners, stream, delivered, console>>
    /\ UNCHANGED fnVars

\* The event stream delivers a pending transaction to the registered handler.
StreamEvent ==
    /\ ~exited
    /\ "transaction" \in listeners
    /\ stream = <<>>
    /\ delivered < MaxEvents
    /\ \E pendingTx \in PendingTransaction : stream' = <<pendingTx>>
    /\ delivered' = delivered + 1
    /\ UNCHANGED <<pc, apc, exited, PAIR_ADDRESS, nonce, allowance, balance,
                   approvals, listeners, console>>
    /\ UNCHANGED fnVars

\* Variant: the `return` after the skip line is missing.
Handler_noReturn ==
    /\ ~exited
    /\ "transaction" \in listeners
    /\ stream /= <<>>
    /\ LET pendingTx == stream[1]
           skip == [text |-> "skipping tx: ", arg |-> pendingTx.hash]
           match == [text |-> "It's a match: ", arg |-> pendingTx.hash] IN
         IF ~transactionIsRelatedToPair(pendingTx, PAIR_ADDRESS[1])
         THEN console' = console \o <<skip, match>>
         ELSE console' = Append(console, match)
    /\ stream' = <<>>
    /\ UNCHANGED <<pc, apc, exited, PAIR_ADDRESS, nonce, allowance, balance,
                   approvals, listeners, delivered>>
    /\ UNCHANGED fnVars

\* The handler of the final main: it has no await, so it runs in one piece.
Handler ==
    /\ ~exited
    /\ "transaction" \in listeners
    /\ stream /= <<>>
    /\ LET pendingTx == stream[1] IN
         IF ~transactionIsRelatedToPair(pendingTx, PAIR_ADDRESS[1])
         THEN console' = Append(console, [text |-> "skipping tx: ",
                                          arg |-> pendingTx.hash])
         ELSE console' = Append(console, [text |-> "It's a match: ",
                                          arg |-> pendingTx.hash])
    /\ stream' = <<>>
    /\ UNCHANGED <<pc, apc, exited, PAIR_ADDRESS, nonce, allowance, balance,
                   approvals, listeners, delivered>>
    /\ UNCHANGED fnVars

Next ==
    \/ MainLog
    \/ MainGetPair
    \/ MainCallApprove
    \/ ApproveReadAllowance
    \/ ApproveReadBalance
    \/ ApproveSend
    \/ MainGetNonce
    \/ MainOn
    \/ AwaitRejects
    \/ StreamEvent
    \/ Handler

Spec == Init /\ [][Next]_vars

\* ------------------------------------- transactionIsRelatedToPair on its own
\* Any pending transaction, any pair address.
PairArgument == Address \cup FactoryPairs

\* The `to` field and the set of `address` fields of the logs.
toAndLogAddresses(pendingTx) ==
    [to |-> pendingTx.to,
     addresses |-> IF "logs" \in DOMAIN pendingTx
                   THEN {pendingTx.logs[i].address : i \in DOMAIN pendingTx.logs}
                   ELSE {}]

PredicateInit ==
    /\ MainInit
    /\ fnTx \in {<<t>> : t \in PendingTransaction}
    /\ fnPair \in {<<p>> : p \in PairArgument}
    /\ fnTwin = <<>> /\ fnResult = <<>> /\ fnTwinResult = <<>>

\* transactionIsRelatedToPair(fnTx, fnPair)
Call ==
    /\ fnResult = <<>>
    /\ fnResult' = <<transactionIsRelatedToPair(fnTx[1], fnPair[1])>>
    /\ UNCHANGED <<fnTx, fnTwin, fnPair, fnTwinResult>>
    /\ UNCHANGED mainVars

\* The same call on a second transaction that has the same `to` and the same
\* set of log addresses as the first.
CallTwin ==
    /\ fnResult /= <<>>
    /\ fnTwinResult = <<>>
    /\ \E t \in PendingTransaction :
        /\ toAndLogAddresses(t) = toAndLogAddresses(fnTx[1])
        /\ fnTwin' = <<t>>
        /\ fnTwinResult' = <<transactionIsRelatedToPair(t, fnPair[1])>>
    /\ UNCHANGED <<fnTx, fnPair, fnResult>>
    /\ UNCHANGED mainVars

PredicateNext == Call \/ CallTwin

SpecPredicate == PredicateInit /\ [][PredicateNext]_vars

\* ---------------------------------------------------------------- claims

\* C1: transactionIsRelatedToPair(pendingTx, P) is true exactly when
\* pendingTx.to equals P or some entry of pendingTx.logs has address P, and
\* false in every other case.
C1_RelatedIffToOrLogAddress ==
    fnResult /= <<>> =>
        LET tx == fnTx[1]
            P  == fnPair[1]
        IN  /\ fnResult[1] \in BOOLEAN
            /\ fnResult[1] <=>
                 \/ tx.to = P
                 \/ /\ "logs" \in DOMAIN tx
                    /\ \E i \in DOMAIN tx.logs : tx.logs[i].address = P

\* C1 witness: the call answered true because of the second log alone.
C1_Witness ==
    /\ fnResult = <<TRUE>>
    /\ fnTx[1].to /= fnPair[1]
    /\ "logs" \in DOMAIN fnTx[1]
    /\ Len(fnTx[1].logs) = 2
    /\ fnTx[1].logs[1].address /= fnPair[1]
    /\ fnTx[1].logs[2].address = fnPair[1]

\* C2: every event given to the handler is reported exactly once, as
\* 'skipping tx: <hash>' or as "It's a match: <hash>" with the hash of that
\* event, and it is a match exactly when
\* transactionIsRelatedToPair(pendingTx, PAIR_ADDRESS) is true; the console
\* holds one report per handled event and no other report.
isReport(line) == line.text \in {"skipping tx: ", "It's a match: "}

C2_EachEventReportedOnce ==
    /\ [](Len(SelectSeq(console, isReport)) = delivered - Len(stream))
    /\ [][ (stream /= <<>> /\ stream' = <<>>) =>
             console' = Append(console,
                 [text |-> IF transactionIsRelatedToPair(stream[1], PAIR_ADDRESS[1])
                           THEN "It's a match: " ELSE "skipping tx: ",
                  arg  |-> stream[1].hash]) ]_vars

\* C2 witness: two events were handled, the first skipped, the second matched.
C2_Witness ==
    /\ stream = <<>>
    /\ delivered = 2
    /\ Len(console) >= 2
    /\ console[Len(console) - 1].text = "skipping tx: "
    /\ console[Len(console)].text = "It's a match: "
    /\ console[Len(console) - 1].arg /= console[Len(console)].arg

\* C3: two pending transactions with the same `to` and the same set of log
\* addresses get the same answer for the same pair address, whatever their
\* hash, functionSelector, callData, gasUsed, mevGasPrice, log topics and log
\* data are.
C3_DependsOnlyOnToAndLogAddresses ==
    (fnResult /= <<>> /\ fnTwinResult /= <<>>
        /\ toAndLogAddresses(fnTx[1]) = toAndLogAddresses(fnTwin[1]))
    => fnResult[1] = fnTwinResult[1]

\* C3 witness: both calls answered true on transactions that differ in hash,
\* in the shared fields and in the number, topics and data of their logs.
C3_Witness ==
    /\ fnResult = <<TRUE>> /\ fnTwinResult = <<TRUE>>
    /\ fnTx[1].to = Null
    /\ fnTx[1].hash /= fnTwin[1].hash
    /\ fnTx[1].functionSelector /= fnTwin[1].functionSelector
    /\ fnTx[1].callData /= fnTwin[1].callData
    /\ fnTx[1].gasUsed /= fnTwin[1].gasUsed
    /\ fnTx[1].mevGasPrice /= fnTwin[1].mevGasPrice
    /\ Len(fnTx[1].logs) = 1 /\ Len(fnTwin[1].logs) = 2
    /\ fnTx[1].logs[1].data = "0x"
    /\ \A i \in 1..2 : /\ fnTwin[1].logs[i].data /= "0x"
                       /\ fnTwin[1].logs[i].topics /= fnTx[1].logs[1].topics

\* C4: main obtains the pair address, then approveTokenToRouter runs to its
\* return, then the nonce is read, and only then is the 'transaction' handler
\* registered; no event is delivered or handled before approveTokenToRouter
\* has returned.
C4_ApproveBeforeHandler ==
    /\ (apc /= "idle" => PAIR_ADDRESS /= <<>>)
    /\ (nonce /= <<>> => apc = "returned")
    /\ ("transaction" \in listeners => nonce /= <<>>)
    /\ ((stream /= <<>> \/ delivered > 0) => apc = "returned")
    /\ (\E i \in DOMAIN console : isReport(console[i])) => apc = "returned"

\* C4 witness: an event was handled after the approve transaction was sent.
C4_Witness ==
    /\ approvals /= <<>>
    /\ nonce /= <<>>
    /\ delivered > 0
    /\ stream = <<>>
    /\ \E i \in DOMAIN console : isReport(console[i])

====
